---- MODULE Spec2Model ----
(***************************************************************************)
(* Model of generate_admissions (python_scripts/data_generator.py), the    *)
(* admission history simulator: a loop that emits n admission records and  *)
(* keeps, per patient, the list of already emitted admissions from which   *)
(* the readmission flags of later admissions are computed.                 *)
(*                                                                         *)
(* Dates are whole days counted from start_date (2023-01-01); every date   *)
(* the code builds is start_date plus a whole number of days, so the       *)
(* timedelta arithmetic is integer arithmetic on these day numbers.        *)
(* Random draws are nondeterministic choices from the range the call can   *)
(* return.  Fields that are pure draws read by nothing else                *)
(* (admission_type, admission_source, secondary_diagnoses,                 *)
(* attending_physician, patient_age_at_admission) are left out of the      *)
(* record; the condition only parameterises the length-of-stay and ICU     *)
(* draws and is absorbed into them.                                        *)
(*                                                                         *)
(* The second part models the database load of main: insert_dataframe      *)
(* called for the eight tables in turn on one connection.  Every call on   *)
(* the connection or the cursor either returns or raises an Exception.     *)
(***************************************************************************)
EXTENDS Integers, Sequences, FiniteSets

VARIABLES
    patients_df,        \* set of patient ids (argument)
    hospitals_df,       \* set of hospital ids (argument)
    departments_df,     \* set of [department_id, hospital_id] (argument)
    n,                  \* number of admissions to generate (argument)
    i,                  \* loop counter of `for i in range(n)`
    admissions,         \* the list `admissions`
    patient_admissions, \* the dict `patient_admissions`
    pc,                 \* "loop", "returned" or "raised"
    main_pc,            \* position of main in its database part
    table_idx,          \* which insert_dataframe call of main is current
    ins_pc,             \* position inside insert_dataframe
    exc,                \* an exception is in flight through `finally`
    pending,            \* per table: rows inserted in the open transaction
    committed,          \* per table: rows committed
    calls,              \* per table: calls made on connection and cursor
    failed,             \* per table: the calls that raised
    result              \* per table: how insert_dataframe ended

gen_vars == <<patients_df, hospitals_df, departments_df, n, i, admissions,
              patient_admissions, pc>>

load_vars == <<main_pc, table_idx, ins_pc, exc, pending, committed, calls,
               failed, result>>

vars == <<patients_df, hospitals_df, departments_df, n, i, admissions,
          patient_admissions, pc, main_pc, table_idx, ins_pc, exc, pending,
          committed, calls, failed, result>>

(* ------------------------------ bounds --------------------------------- *)
MaxN == 2
NumPatients == 2
MaxLos == 2
ChainN == 3
ChainPatients == 1
MaxIcuLos == 4
RawLosBelow == 2
NumHospitals == 2

\* Sampled admission days (a subset of the two-year window).
AdmissionDays == {0, 11, 72, 103, 104}
ChainDays == {0, 11, 72}
SingleDay == {0}

(* ------------------------- program constants --------------------------- *)
WindowDays == 730
FirstAdmissionId == 20001
None == 0
Window30 == 30
Window90 == 90
MortalityMaxOffset == 5

DISCHARGE_DISPOSITIONS ==
    <<"Home", "Home Health Service", "Skilled Nursing Facility",
      "Rehab Facility", "Expired", "Left AMA">>

\* The table names of main's insert_dataframe calls, in call order.
TABLES ==
    <<"patients", "hospitals", "departments", "admissions",
      "patient_procedures", "patient_medications", "lab_results", "billing">>

(* ------------------------------ helpers -------------------------------- *)
Max(a, b) == IF a >= b THEN a ELSE b

Range(s) == {s[k] : k \in 1..Len(s)}

\* f"A{20001 + i}": the number that follows the letter A.
AdmissionId(k) == FirstAdmissionId + k

\* Mutant: the draw used as it comes, without the floor.
LosUnclamped(raw) == raw

\* Mutant: the floor put at 0 instead of 1.
LosFloorZero(raw) == Max(0, raw)

\* max(1, int(np.random.normal(mean, std))); raw is the truncated draw.
Los(raw) == Max(1, raw)

\* Mutant: the whole history, future discharges included.
PreviousAdmissionsUnfiltered(history, admission_date) == history

\* Mutant: a discharge on the admission day counts as earlier.
PreviousAdmissionsInclusive(history, admission_date) ==
    SelectSeq(history, LAMBDA a : a.discharge_date <= admission_date)

\* [a for a in patient_admissions[pid] if a['discharge_date'] < admission_date]
PreviousAdmissions(history, admission_date) ==
    SelectSeq(history, LAMBDA a : a.discharge_date < admission_date)

\* Mutant: the oldest entry instead of the latest discharge.
LastAdmissionFirst(previous) == previous[1]

\* max(previous_admissions, key=lambda x: x['discharge_date']): the first
\* entry, in list order, whose discharge date is the largest.
LastAdmission(previous) ==
    previous[CHOOSE k \in 1..Len(previous) :
                /\ \A j \in 1..Len(previous) :
                      previous[j].discharge_date <= previous[k].discharge_date
                /\ \A j \in 1..(k - 1) :
                      previous[j].discharge_date < previous[k].discharge_date]

\* Mutant: the 90-day window compared with < instead of <=.
FlagsForGapStrict90(days_since_last, last_id) ==
    IF days_since_last <= Window30
    THEN [readmission_flag |-> 1, readmission_30day |-> 1,
          previous_admission_id |-> last_id]
    ELSE IF days_since_last < Window90
    THEN [readmission_flag |-> 1, readmission_30day |-> 0,
          previous_admission_id |-> last_id]
    ELSE [readmission_flag |-> 0, readmission_30day |-> 0,
          previous_admission_id |-> None]

\* Mutant: the two windows tested in the wrong order.
FlagsForGapSwapped(days_since_last, last_id) ==
    IF days_since_last <= Window90
    THEN [readmission_flag |-> 1, readmission_30day |-> 1,
          previous_admission_id |-> last_id]
    ELSE IF days_since_last <= Window30
    THEN [readmission_flag |-> 1, readmission_30day |-> 0,
          previous_admission_id |-> last_id]
    ELSE [readmission_flag |-> 0, readmission_30day |-> 0,
          previous_admission_id |-> None]

\* The flags and the link for a gap of days_since_last days.
FlagsForGap(days_since_last, last_id) ==
    IF days_since_last <= Window30
    THEN [readmission_flag |-> 1, readmission_30day |-> 1,
          previous_admission_id |-> last_id]
    ELSE IF days_since_last <= Window90
    THEN [readmission_flag |-> 1, readmission_30day |-> 0,
          previous_admission_id |-> last_id]
    ELSE [readmission_flag |-> 0, readmission_30day |-> 0,
          previous_admission_id |-> None]

\* The readmission logic of one iteration.
Readmission(history, admission_date) ==
    LET previous == PreviousAdmissions(history, admission_date)
    IN  IF previous # <<>>
        THEN LET last == LastAdmission(previous)
             IN  FlagsForGap(admission_date - last.discharge_date,
                             last.admission_id)
        ELSE [readmission_flag |-> 0, readmission_30day |-> 0,
              previous_admission_id |-> None]

\* random.randint(1, max(1, los // 2)) if icu_flag else 0
IcuDaysChoices(icu_flag, los) ==
    IF icu_flag = 1 THEN 1..Max(1, los \div 2) ELSE {0}

\* Mutant: the offset drawn from 0.
MortalityOffsetsFromZero == 0..MortalityMaxOffset

\* random.randint(1, 5)
MortalityOffsets == 1..MortalityMaxOffset

\* discharge_date if not mortality_flag else admission_date + timedelta(offset)
RecordedDischarge(admission_date, discharge_date, mortality_flag, offset) ==
    IF mortality_flag = 0 THEN discharge_date ELSE admission_date + offset

\* Mutant: the disposition drawn whatever the mortality flag.
DispositionChoicesNoOverride(mortality_flag) ==
    Range(SubSeq(DISCHARGE_DISPOSITIONS, 1, Len(DISCHARGE_DISPOSITIONS) - 1))

\* 'Expired' if mortality_flag else random.choice(DISCHARGE_DISPOSITIONS[:-1])
DispositionChoices(mortality_flag) ==
    IF mortality_flag # 0
    THEN {"Expired"}
    ELSE Range(SubSeq(DISCHARGE_DISPOSITIONS, 1,
                      Len(DISCHARGE_DISPOSITIONS) - 1))

\* Mutant: the planned discharge date, before the mortality override.
HistoryDischargePlanned(admission, planned_discharge) == planned_discharge

\* The discharge date stored in the patient's history:
\* 'discharge_date': admission['discharge_date'].
HistoryDischarge(admission, planned_discharge) == admission.discharge_date

\* Mutant: a hospital without departments borrows any department.
DepartmentsOfOrAny(hospital) ==
    IF {d \in departments_df : d.hospital_id = hospital} = {}
    THEN departments_df
    ELSE {d \in departments_df : d.hospital_id = hospital}

\* departments_df[departments_df['hospital_id'] == hospital['hospital_id']]
DepartmentsOf(hospital) ==
    {d \in departments_df : d.hospital_id = hospital}

(* ------------------------------- state --------------------------------- *)
NoCalls == [cursor |-> 0, executemany |-> 0, commit |-> 0, rollback |-> 0,
            close |-> 0]

\* The database part before main reaches it.
LoadInit ==
    /\ main_pc = "connect"
    /\ table_idx = 1
    /\ ins_pc = "idle"
    /\ exc = FALSE
    /\ pending = [t \in 1..Len(TABLES) |-> "none"]
    /\ committed = [t \in 1..Len(TABLES) |-> "none"]
    /\ calls = [t \in 1..Len(TABLES) |-> NoCalls]
    /\ failed = [t \in 1..Len(TABLES) |-> {}]
    /\ result = [t \in 1..Len(TABLES) |-> "pending"]

InitWith(maxN, numPatients) ==
    /\ LoadInit
    /\ patients_df = 1..numPatients
    /\ hospitals_df = {1}
    /\ departments_df = {[department_id |-> 1, hospital_id |-> 1]}
    /\ n \in 0..maxN
    /\ i = 0
    /\ admissions = <<>>
    /\ patient_admissions = [p \in patients_df |-> <<>>]
    /\ pc = "loop"

\* One iteration of the loop body, for the given draws.
generate_admissions_iter(patient, hospital, dept, admission_date, raw_los, icu_flag, icu_days, mortality_flag, offset, disposition) ==
    /\ pc = "loop"
    /\ i < n
    /\ patient \in patients_df
    /\ hospital \in hospitals_df
    /\ dept \in DepartmentsOf(hospital)
    /\ admission_date \in 0..WindowDays
    /\ icu_flag \in {0, 1}
    /\ mortality_flag \in {0, 1}
    /\ icu_days \in IcuDaysChoices(icu_flag, Los(raw_los))
    /\ offset \in MortalityOffsets
    /\ disposition \in DispositionChoices(mortality_flag)
    /\ LET admission_id == AdmissionId(i)
           los == Los(raw_los)
           discharge_date == admission_date + los
           readm == Readmission(patient_admissions[patient], admission_date)
           admission ==
               [admission_id |-> admission_id,
                patient_id |-> patient,
                hospital_id |-> hospital,
                department_id |-> dept.department_id,
                admission_date |-> admission_date,
                discharge_date |->
                    RecordedDischarge(admission_date, discharge_date,
                                      mortality_flag, offset),
                length_of_stay_days |-> los,
                readmission_flag |-> readm.readmission_flag,
                readmission_within_30days |-> readm.readmission_30day,
                previous_admission_id |-> readm.previous_admission_id,
                discharge_disposition |-> disposition,
                mortality_flag |-> mortality_flag,
                icu_stay_flag |-> icu_flag,
                icu_days |-> icu_days]
       IN  /\ admissions' = Append(admissions, admission)
           /\ patient_admissions' =
                  [patient_admissions EXCEPT ![patient] =
                      Append(@, [admission_id |-> admission_id,
                                 discharge_date |->
                                     HistoryDischarge(admission,
                                                      discharge_date)])]
    /\ i' = i + 1
    /\ UNCHANGED <<patients_df, hospitals_df, departments_df, n, pc>>
    /\ UNCHANGED load_vars

\* An iteration that fails: DataFrame.sample(1) raises ValueError on an empty
\* frame, be it patients_df, hospitals_df or the selected hospital's
\* departments; the exception leaves the function before anything is
\* appended.
generate_admissions_raise ==
    /\ pc = "loop"
    /\ i < n
    /\ \/ patients_df = {}
       \/ hospitals_df = {}
       \/ \E hospital \in hospitals_df : DepartmentsOf(hospital) = {}
    /\ pc' = "raised"
    /\ UNCHANGED <<patients_df, hospitals_df, departments_df, n, i,
                   admissions, patient_admissions>>
    /\ UNCHANGED load_vars

\* return pd.DataFrame(admissions), once range(n) is exhausted.
Return ==
    /\ pc = "loop"
    /\ i = n
    /\ pc' = "returned"
    /\ UNCHANGED <<patients_df, hospitals_df, departments_df, n, i,
                   admissions, patient_admissions>>
    /\ UNCHANGED load_vars

(* --------------------------- database load ----------------------------- *)
\* Mutant: no except clause, a raise in the try block goes to finally.
AfterRaiseUnhandled == "finally"

\* Where a raise inside the try block leads: `except Exception as e:`.
AfterRaise == "except"

\* The call `name` of the current insert_dataframe is made once more.
Called(name) ==
    [calls EXCEPT ![table_idx] = [@ EXCEPT ![name] = @ + 1]]

Raised(name) ==
    [failed EXCEPT ![table_idx] = @ \cup {name}]

\* connection = connect_to_oracle(); `if connection:` starts the inserts.
ConnectToOracle(ok) ==
    /\ main_pc = "connect"
    /\ IF ok
       THEN main_pc' = "insert" /\ ins_pc' = "cursor"
       ELSE main_pc' = "no_connection" /\ ins_pc' = ins_pc
    /\ UNCHANGED <<table_idx, exc, pending, committed, calls, failed, result>>
    /\ UNCHANGED gen_vars

\* cursor = connection.cursor(), before the try statement.
OpenCursor(ok) ==
    /\ main_pc = "insert"
    /\ ins_pc = "cursor"
    /\ calls' = Called("cursor")
    /\ IF ok
       THEN /\ ins_pc' = "try"
            /\ UNCHANGED <<main_pc, failed, result>>
       ELSE /\ ins_pc' = "idle"
            /\ main_pc' = "aborted"
            /\ failed' = Raised("cursor")
            /\ result' = [result EXCEPT ![table_idx] = "propagated"]
    /\ UNCHANGED <<table_idx, exc, pending, committed>>
    /\ UNCHANGED gen_vars

\* cursor.executemany(insert_sql, rows): all rows inserted, or a raise that
\* leaves none or some of the rows in the open transaction.
ExecuteMany(ok, left) ==
    /\ main_pc = "insert"
    /\ ins_pc = "try"
    /\ calls' = Called("executemany")
    /\ IF ok
       THEN /\ pending' = [pending EXCEPT ![table_idx] = "all"]
            /\ ins_pc' = "commit"
            /\ UNCHANGED failed
       ELSE /\ pending' = [pending EXCEPT ![table_idx] = left]
            /\ ins_pc' = AfterRaise
            /\ failed' = Raised("executemany")
    /\ UNCHANGED <<main_pc, table_idx, exc, committed, result>>
    /\ UNCHANGED gen_vars

\* connection.commit(): commits whatever the transaction holds.
Commit(ok) ==
    /\ main_pc = "insert"
    /\ ins_pc = "commit"
    /\ calls' = Called("commit")
    /\ IF ok
       THEN /\ committed' =
                   [t \in DOMAIN committed |->
                       IF pending[t] # "none" THEN pending[t]
                       ELSE committed[t]]
            /\ pending' = [t \in DOMAIN pending |-> "none"]
            /\ ins_pc' = "finally"
            /\ UNCHANGED failed
       ELSE /\ ins_pc' = AfterRaise
            /\ failed' = Raised("commit")
            /\ UNCHANGED <<pending, committed>>
    /\ UNCHANGED <<main_pc, table_idx, exc, result>>
    /\ UNCHANGED gen_vars

\* except Exception as e: print(...); connection.rollback()
Rollback(ok) ==
    /\ main_pc = "insert"
    /\ ins_pc = "except"
    /\ calls' = Called("rollback")
    /\ IF ok
       THEN /\ pending' = [t \in DOMAIN pending |-> "none"]
            /\ UNCHANGED <<failed, exc>>
       ELSE /\ failed' = Raised("rollback")
            /\ exc' = TRUE
            /\ UNCHANGED pending
    /\ ins_pc' = "finally"
    /\ UNCHANGED <<main_pc, table_idx, committed, result>>
    /\ UNCHANGED gen_vars

\* finally: cursor.close(), then the function returns, or the exception in
\* flight (or the one close raised) leaves it; main goes on to the next
\* insert_dataframe call, or to connection.close() after the last one.
CloseCursor(ok) ==
    /\ main_pc = "insert"
    /\ ins_pc = "finally"
    /\ LET raises == exc \/ ~ok
       IN  /\ calls' = Called("close")
           /\ failed' = IF ok THEN failed ELSE Raised("close")
           /\ IF raises
              THEN /\ result' = [result EXCEPT ![table_idx] = "propagated"]
                   /\ main_pc' = "aborted"
                   /\ ins_pc' = "idle"
                   /\ UNCHANGED table_idx
              ELSE /\ result' = [result EXCEPT ![table_idx] = "returned"]
                   /\ IF table_idx < Len(TABLES)
                      THEN /\ table_idx' = table_idx + 1
                           /\ ins_pc' = "cursor"
                           /\ UNCHANGED main_pc
                      ELSE /\ ins_pc' = "idle"
                           /\ main_pc' = "close_connection"
                           /\ UNCHANGED table_idx
    /\ exc' = FALSE
    /\ UNCHANGED <<pending, committed>>
    /\ UNCHANGED gen_vars

\* connection.close() after the eighth insert.
ConnectionClose ==
    /\ main_pc = "close_connection"
    /\ main_pc' = "done"
    /\ UNCHANGED <<table_idx, ins_pc, exc, pending, committed, calls, failed,
                   result>>
    /\ UNCHANGED gen_vars

(* --------------------------- specifications ---------------------------- *)
\* Readmission windows: every patient, the sampled days, stays 1..MaxLos,
\* no ICU stay and no mortality event drawn.
Init == InitWith(MaxN, NumPatients)

Emit ==
    \E patient \in patients_df, hospital \in hospitals_df :
    \E dept \in DepartmentsOf(hospital), day \in AdmissionDays,
       raw \in 1..MaxLos :
        generate_admissions_iter(patient, hospital, dept, day, raw,
                                 0, 0, 0, 1, "Home")

Next == Emit \/ Return

Spec == Init /\ [][Next]_vars

\* Chains: longer runs over fewer patients and days.
InitChain == InitWith(ChainN, ChainPatients)

EmitChain ==
    \E patient \in patients_df, hospital \in hospitals_df :
    \E dept \in DepartmentsOf(hospital), day \in ChainDays,
       raw \in 1..MaxLos :
        generate_admissions_iter(patient, hospital, dept, day, raw,
                                 0, 0, 0, 1, "Home")

NextChain == EmitChain \/ Return

SpecChain == InitChain /\ [][NextChain]_vars

\* History: every patient, one day, and the mortality draw with its offset.
InitHistory == InitWith(MaxN, NumPatients)

EmitHistory ==
    \E patient \in patients_df, hospital \in hospitals_df :
    \E dept \in DepartmentsOf(hospital), day \in SingleDay,
       raw \in 1..MaxLos, mortality_flag \in {0, 1} :
    \E offset \in IF mortality_flag = 1 THEN MortalityOffsets ELSE {1},
       disposition \in DispositionChoices(mortality_flag)
                           \cap {"Home", "Expired"} :
        generate_admissions_iter(patient, hospital, dept, day, raw,
                                 0, 0, mortality_flag, offset, disposition)

NextHistory == EmitHistory \/ Return

SpecHistory == InitHistory /\ [][NextHistory]_vars

\* Mortality: the mortality draw, its offset and the disposition draw.
InitMortality == InitWith(MaxN, ChainPatients)

EmitMortality ==
    \E patient \in patients_df, hospital \in hospitals_df :
    \E dept \in DepartmentsOf(hospital), day \in SingleDay,
       raw \in 1..MaxLos, mortality_flag \in {0, 1} :
    \E offset \in IF mortality_flag = 1 THEN MortalityOffsets ELSE {1},
       disposition \in DispositionChoices(mortality_flag) :
        generate_admissions_iter(patient, hospital, dept, day, raw,
                                 0, 0, mortality_flag, offset, disposition)

NextMortality == EmitMortality \/ Return

SpecMortality == InitMortality /\ [][NextMortality]_vars

\* ICU: the length-of-stay draw (values below 1 included) and the ICU draws.
InitIcu == InitWith(MaxN, ChainPatients)

EmitIcu ==
    \E patient \in patients_df, hospital \in hospitals_df :
    \E dept \in DepartmentsOf(hospital), day \in SingleDay,
       raw \in (1 - RawLosBelow)..MaxIcuLos, icu_flag \in {0, 1} :
    \E icu_days \in IcuDaysChoices(icu_flag, Los(raw)) :
        generate_admissions_iter(patient, hospital, dept, day, raw,
                                 icu_flag, icu_days, 0, 1, "Home")

NextIcu == EmitIcu \/ Return

SpecIcu == InitIcu /\ [][NextIcu]_vars

\* Stay: the length-of-stay draw (values below 1 included) together with
\* the mortality draw and its offset.
InitStay == InitWith(MaxN, ChainPatients)

EmitStay ==
    \E patient \in patients_df, hospital \in hospitals_df :
    \E dept \in DepartmentsOf(hospital), day \in SingleDay,
       raw \in (1 - RawLosBelow)..MaxLos, mortality_flag \in {0, 1} :
    \E offset \in IF mortality_flag = 1 THEN MortalityOffsets ELSE {1},
       disposition \in DispositionChoices(mortality_flag)
                           \cap {"Home", "Expired"} :
        generate_admissions_iter(patient, hospital, dept, day, raw,
                                 0, 0, mortality_flag, offset, disposition)

NextStay == EmitStay \/ Return

SpecStay == InitStay /\ [][NextStay]_vars

\* Preconditions: the collections may be empty and a hospital may own no
\* department.
InitFail ==
    /\ LoadInit
    /\ patients_df \in {1..k : k \in 0..ChainPatients}
    /\ hospitals_df \in {1..k : k \in 0..NumHospitals}
    /\ departments_df \in
           SUBSET {[department_id |-> h, hospital_id |-> h] :
                      h \in 1..NumHospitals}
    /\ n \in 0..MaxN
    /\ i = 0
    /\ admissions = <<>>
    /\ patient_admissions = [p \in patients_df |-> <<>>]
    /\ pc = "loop"

EmitFail ==
    \E patient \in patients_df, hospital \in hospitals_df :
    \E dept \in DepartmentsOf(hospital), day \in SingleDay, raw \in {1} :
        generate_admissions_iter(patient, hospital, dept, day, raw,
                                 0, 0, 0, 1, "Home")

NextFail == EmitFail \/ generate_admissions_raise \/ Return

SpecFail == InitFail /\ [][NextFail]_vars

\* Load: main after the generators have returned, from connect_to_oracle
\* on; every database call may return or raise.
InitLoad ==
    /\ LoadInit
    /\ patients_df = {}
    /\ hospitals_df = {}
    /\ departments_df = {}
    /\ n = 0
    /\ i = 0
    /\ admissions = <<>>
    /\ patient_admissions = [p \in patients_df |-> <<>>]
    /\ pc = "returned"

NextLoad ==
    \/ \E ok \in BOOLEAN : ConnectToOracle(ok)
    \/ \E ok \in BOOLEAN : OpenCursor(ok)
    \/ \E ok \in BOOLEAN, left \in {"none", "partial"} : ExecuteMany(ok, left)
    \/ \E ok \in BOOLEAN : Commit(ok)
    \/ \E ok \in BOOLEAN : Rollback(ok)
    \/ \E ok \in BOOLEAN : CloseCursor(ok)
    \/ ConnectionClose

SpecLoad == InitLoad /\ [][NextLoad]_vars

(* ------------------------------ claims --------------------------------- *)
\* What the claims speak about, read off the emitted records alone.
Emitted == 1..Len(admissions)

\* The earlier emissions of admission k's patient that were discharged
\* strictly before admission k's admission date.
PriorOf(k) ==
    {j \in 1..(k - 1) :
        /\ admissions[j].patient_id = admissions[k].patient_id
        /\ admissions[j].discharge_date < admissions[k].admission_date}

MostRecentDischarge(k) ==
    CHOOSE d \in {admissions[j].discharge_date : j \in PriorOf(k)} :
        \A j \in PriorOf(k) : admissions[j].discharge_date <= d

GapOf(k) == admissions[k].admission_date - MostRecentDischarge(k)

\* Admission k is linked to an earlier-discharged emission of the same
\* patient whose discharge date is the most recent one.
LinkedToMostRecent(k) ==
    \E j \in PriorOf(k) :
        /\ admissions[j].admission_id = admissions[k].previous_admission_id
        /\ admissions[j].discharge_date = MostRecentDischarge(k)

\* C1: with an earlier-discharged entry in the history, the gap to the most
\* recent such discharge fixes the flags: gap <= 30 sets both flags and the
\* link, 30 < gap <= 90 sets readmission_flag and the link only, gap > 90
\* sets nothing; so a record with readmission_flag = 1 and
\* readmission_within_30days = 0 is linked to a prior admission whose gap
\* lies in (30, 90].
C1_GapDeterminesFlags ==
    \A k \in Emitted :
        LET a == admissions[k] IN
        /\ PriorOf(k) # {} =>
              /\ GapOf(k) <= 30 =>
                    /\ a.readmission_flag = 1
                    /\ a.readmission_within_30days = 1
                    /\ LinkedToMostRecent(k)
              /\ (30 < GapOf(k) /\ GapOf(k) <= 90) =>
                    /\ a.readmission_flag = 1
                    /\ a.readmission_within_30days = 0
                    /\ LinkedToMostRecent(k)
              /\ GapOf(k) > 90 =>
                    /\ a.readmission_flag = 0
                    /\ a.readmission_within_30days = 0
                    /\ a.previous_admission_id = None
        /\ (a.readmission_flag = 1 /\ a.readmission_within_30days = 0) =>
              \E j \in 1..(k - 1) :
                  /\ admissions[j].admission_id = a.previous_admission_id
                  /\ admissions[j].patient_id = a.patient_id
                  /\ 30 < a.admission_date - admissions[j].discharge_date
                  /\ a.admission_date - admissions[j].discharge_date <= 90

\* A record flagged as a readmission outside the 30-day window, at the far
\* edge of the 90-day window.
C1_Witness ==
    \E k \in Emitted :
        /\ PriorOf(k) # {}
        /\ GapOf(k) = 90
        /\ admissions[k].readmission_flag = 1
        /\ admissions[k].readmission_within_30days = 0

\* Every link of the emitted records goes to an earlier emission of the same
\* patient that was discharged strictly before the linking admission began.
C2_LinksLookBack ==
    \A k \in Emitted :
        admissions[k].previous_admission_id # None =>
            \E j \in 1..(k - 1) :
                /\ admissions[j].admission_id =
                       admissions[k].previous_admission_id
                /\ admissions[j].patient_id = admissions[k].patient_id
                /\ admissions[j].discharge_date < admissions[k].admission_date

\* The records already emitted are the same after the step.
C2_EmittedKept ==
    /\ Len(admissions') >= Len(admissions)
    /\ \A k \in Emitted : admissions'[k] = admissions[k]

\* C2: no look-ahead: a link always names an earlier emission of the same
\* patient discharged strictly before the admission date, and a record,
\* once emitted, is never changed by later emissions.
C2_NoLookAhead == [][C2_EmittedKept /\ C2_LinksLookBack']_vars

\* A record linked to an earlier emission of the same patient.
C2_Witness ==
    \E j \in Emitted, k \in Emitted :
        /\ j < k
        /\ admissions[j].patient_id = admissions[k].patient_id
        /\ admissions[j].admission_date < admissions[k].admission_date
        /\ admissions[k].previous_admission_id = admissions[j].admission_id

\* C4: a record with readmission_within_30days = 1 also has
\* readmission_flag = 1, and the admission its link names is an earlier one
\* of the same patient discharged at most 30 days before.
C4_ThirtyDayImpliesFlagAndPrior ==
    \A k \in Emitted :
        admissions[k].readmission_within_30days = 1 =>
            /\ admissions[k].readmission_flag = 1
            /\ \E j \in 1..(k - 1) :
                  /\ admissions[j].admission_id =
                         admissions[k].previous_admission_id
                  /\ admissions[j].patient_id = admissions[k].patient_id
                  /\ admissions[j].discharge_date
                         < admissions[k].admission_date
                  /\ admissions[k].admission_date
                         - admissions[j].discharge_date <= 30

\* A 30-day readmission exactly 30 days after the prior discharge.
C4_Witness ==
    \E k \in Emitted :
        /\ admissions[k].readmission_within_30days = 1
        /\ PriorOf(k) # {}
        /\ GapOf(k) = 30

\* C5: when the patient's history holds no entry discharged strictly before
\* the new admission date (it is empty, or every entry discharges on or
\* after that date), both flags are 0 and the link is null.
C5_NoPriorNoFlags ==
    \A k \in Emitted :
        PriorOf(k) = {} =>
            /\ admissions[k].readmission_flag = 0
            /\ admissions[k].readmission_within_30days = 0
            /\ admissions[k].previous_admission_id = None

\* A patient emitted a second time on the very day of the first discharge:
\* the history is not empty, yet nothing in it is earlier.
C5_Witness ==
    \E j \in Emitted, k \in Emitted :
        /\ j < k
        /\ admissions[j].patient_id = admissions[k].patient_id
        /\ admissions[j].discharge_date = admissions[k].admission_date
        /\ PriorOf(k) = {}
        /\ admissions[k].readmission_flag = 0

\* The emissions of one patient up to and including emission k.
EmissionsOfPatientUpTo(k) ==
    {j \in 1..k : admissions[j].patient_id = admissions[k].patient_id}

\* Emissions j1 < j2 < j3 are the first three of one patient, with admission
\* dates D1 < D2 < D3, D2 - discharge(j1) = 10 and D3 - discharge(j2) = 60.
C3_Scenario(j1, j2, j3) ==
    /\ j1 < j2
    /\ j2 < j3
    /\ EmissionsOfPatientUpTo(j3) = {j1, j2, j3}
    /\ admissions[j1].admission_date < admissions[j2].admission_date
    /\ admissions[j2].admission_date < admissions[j3].admission_date
    /\ admissions[j2].admission_date - admissions[j1].discharge_date = 10
    /\ admissions[j3].admission_date - admissions[j2].discharge_date = 60

\* C3: the link and the gap come from the most recent prior discharge: a
\* linked record names an earlier-discharged entry with the maximum
\* discharge date and its flags are those of the gap to that date; and in
\* the three-emission scenario (gaps of 10 and 60 days) admission 2 is a
\* 30-day readmission linked to admission 1, admission 3 a readmission
\* outside the 30-day window linked to admission 2.
C3_MostRecentPriorDischarge ==
    /\ \A k \in Emitted :
          PriorOf(k) # {} =>
              /\ admissions[k].readmission_within_30days = 1 <=> GapOf(k) <= 30
              /\ admissions[k].readmission_flag = 1 <=> GapOf(k) <= 90
              /\ admissions[k].previous_admission_id # None =>
                     LinkedToMostRecent(k)
    /\ \A j1 \in Emitted, j2 \in Emitted, j3 \in Emitted :
          C3_Scenario(j1, j2, j3) =>
              /\ admissions[j2].readmission_within_30days = 1
              /\ admissions[j2].readmission_flag = 1
              /\ admissions[j2].previous_admission_id
                     = admissions[j1].admission_id
              /\ admissions[j3].readmission_flag = 1
              /\ admissions[j3].readmission_within_30days = 0
              /\ admissions[j3].previous_admission_id
                     = admissions[j2].admission_id

\* The three-emission scenario has happened.
C3_Witness ==
    \E j1 \in Emitted, j2 \in Emitted, j3 \in Emitted :
        /\ C3_Scenario(j1, j2, j3)
        /\ Cardinality(PriorOf(j3)) = 2

\* The history a patient should have: that patient's emitted records, in
\* emission order, as (admission_id, recorded discharge_date).
EmittedHistory(p) ==
    LET s == SelectSeq(admissions, LAMBDA a : a.patient_id = p)
    IN  [k \in 1..Len(s) |->
            [admission_id |-> s[k].admission_id,
             discharge_date |-> s[k].discharge_date]]

C6_HistoryIsEmitted ==
    \A p \in DOMAIN patient_admissions :
        /\ Len(patient_admissions[p]) = Len(EmittedHistory(p))
        /\ \A k \in 1..Len(patient_admissions[p]) :
              patient_admissions[p][k] = EmittedHistory(p)[k]

\* An iteration appends one entry, that of the record it emits, to the
\* selected patient's history and leaves every other history alone; no other
\* step touches a history.
C6_Step ==
    /\ DOMAIN patient_admissions' = DOMAIN patient_admissions
    /\ i' = i + 1 =>
          LET a == admissions'[Len(admissions')] IN
          /\ Len(admissions') = Len(admissions) + 1
          /\ patient_admissions'[a.patient_id] =
                 Append(patient_admissions[a.patient_id],
                        [admission_id |-> a.admission_id,
                         discharge_date |-> a.discharge_date])
          /\ \A q \in DOMAIN patient_admissions \ {a.patient_id} :
                 patient_admissions'[q] = patient_admissions[q]
    /\ i' = i => patient_admissions' = patient_admissions

\* C6: each iteration appends exactly one entry (admission_id, recorded
\* discharge_date, the overridden one under mortality) to the selected
\* patient's history, other histories are unchanged, nothing is removed or
\* modified, and each history is the patient's emitted admissions in order.
C6_HistoryAppendOnly == [][C6_Step /\ C6_HistoryIsEmitted']_vars

\* Both patients emitted, one of them with a mortality event whose recorded
\* discharge date differs from admission date + length of stay.
C6_Witness ==
    /\ \A p \in DOMAIN patient_admissions : Len(patient_admissions[p]) >= 1
    /\ \E k \in Emitted :
          /\ admissions[k].mortality_flag = 1
          /\ admissions[k].discharge_date
                 # admissions[k].admission_date
                       + admissions[k].length_of_stay_days
          /\ \E h \in 1..Len(patient_admissions[admissions[k].patient_id]) :
                 patient_admissions[admissions[k].patient_id][h] =
                     [admission_id |-> admissions[k].admission_id,
                      discharge_date |-> admissions[k].discharge_date]

\* C8: a record with mortality_flag = 1 has discharge_disposition 'Expired'.
C8_MortalityIsExpired ==
    \A k \in Emitted :
        admissions[k].mortality_flag = 1 =>
            admissions[k].discharge_disposition = "Expired"

\* A record with a mortality event.
C8_Witness ==
    \E k \in Emitted :
        /\ admissions[k].mortality_flag = 1
        /\ admissions[k].discharge_disposition = "Expired"

C10_IcuDays ==
    \A k \in Emitted :
        LET a == admissions[k] IN
        IF a.icu_stay_flag = 1 /\ a.length_of_stay_days > 1
        THEN a.icu_days \in 1..(a.length_of_stay_days \div 2)
        ELSE a.icu_days = 0

\* C11: the recorded length_of_stay_days is the recorded discharge_date
\* minus the recorded admission_date, in days, mortality records included.
C11_LosIsDateDifference ==
    \A k \in Emitted :
        admissions[k].length_of_stay_days =
            admissions[k].discharge_date - admissions[k].admission_date

\* C12: the recorded discharge_date is on or after the recorded
\* admission_date, with or without a mortality event.
C12_DischargeNotBeforeAdmission ==
    \A k \in Emitted :
        admissions[k].discharge_date >= admissions[k].admission_date

\* A run that emitted a mortality record and a record without mortality,
\* each discharged the day after admission.
C12_Witness ==
    \E j \in Emitted, k \in Emitted :
        /\ admissions[j].mortality_flag = 1
        /\ admissions[k].mortality_flag = 0
        /\ admissions[j].discharge_date = admissions[j].admission_date + 1
        /\ admissions[k].discharge_date = admissions[k].admission_date + 1

\* C13: every record has length_of_stay_days >= 1; a draw of zero or less
\* is recorded as 1, and the iteration emits its record.
C13_LosAtLeastOne ==
    \A k \in Emitted : admissions[k].length_of_stay_days >= 1

\* A completed run whose records all have the minimum stay of one day.
C13_Witness ==
    /\ pc = "returned"
    /\ Len(admissions) = n
    /\ n >= 1
    /\ \A k \in Emitted :
          /\ admissions[k].length_of_stay_days = 1
          /\ admissions[k].mortality_flag = 0

\* C15: a record has discharge_disposition 'Expired' only if its
\* mortality_flag is 1.
C15_ExpiredOnlyWithMortality ==
    \A k \in Emitted :
        admissions[k].discharge_disposition = "Expired" =>
            admissions[k].mortality_flag = 1

\* The departments the collection lists for hospital h.
OwnedBy(h) == {d \in departments_df : d.hospital_id = h}

C14_Inv ==
    \* every record carries a department of its own hospital
    /\ \A k \in Emitted :
          /\ admissions[k].patient_id \in patients_df
          /\ admissions[k].hospital_id \in hospitals_df
          /\ \E d \in OwnedBy(admissions[k].hospital_id) :
                d.department_id = admissions[k].department_id
    \* with an empty collection and n >= 1 nothing is emitted or returned,
    \* and the first iteration raises
    /\ ( /\ n >= 1
         /\ \/ patients_df = {}
            \/ hospitals_df = {}
            \/ departments_df = {} ) =>
          /\ admissions = <<>>
          /\ pc # "returned"
          /\ pc = "loop" => ENABLED generate_admissions_raise
    \* while a hospital without departments can be selected, the iteration
    \* can raise
    /\ ( /\ pc = "loop"
         /\ i < n
         /\ \E h \in hospitals_df : OwnedBy(h) = {} ) =>
          ENABLED generate_admissions_raise
    \* after the failure, output and histories hold the earlier iterations
    /\ pc = "raised" =>
          /\ i < n
          /\ Len(admissions) = i
          /\ \A p \in DOMAIN patient_admissions :
                Len(patient_admissions[p]) = Len(EmittedHistory(p))

\* The failing iteration appends nothing, and an iteration fails only on an
\* empty collection or a hospital without departments.
C14_Step ==
    (pc = "loop" /\ pc' = "raised") =>
        /\ admissions' = admissions
        /\ patient_admissions' = patient_admissions
        /\ \/ patients_df = {}
           \/ hospitals_df = {}
           \/ \E h \in hospitals_df : OwnedBy(h) = {}

\* C14: with n >= 1, an empty patient, hospital or department collection, or
\* a selected hospital that owns no department, makes the iteration raise;
\* no record is produced without a department of its hospital, and the
\* failing iteration appends nothing to the output or to any history.
C14_FailFast == []C14_Inv /\ [][C14_Step]_vars

\* A run that raised after a successful iteration: the second selection
\* fell on a hospital that owns no department.
C14_Witness ==
    /\ pc = "raised"
    /\ Len(admissions) >= 1
    /\ \E h \in hospitals_df : OwnedBy(h) = {}

Tables == 1..Len(TABLES)

Finished(t) == result[t] # "pending"

InsertFailed(t) == failed[t] \cap {"executemany", "commit"} # {}

\* C16 as stated: an insert_dataframe call whose executemany or commit
\* raised has rolled back, closed the cursor once and returned normally; a
\* call whose executemany succeeded went on to commit; a table is committed
\* whole or not at all.
C16_NeverPropagates ==
    \A t \in Tables :
        /\ committed[t] \in {"none", "all"}
        /\ (Finished(t) /\ InsertFailed(t)) =>
              /\ result[t] = "returned"
              /\ pending[t] = "none"
              /\ calls[t].close = 1
        /\ (Finished(t) /\ calls[t].executemany = 1
                /\ "executemany" \notin failed[t]) =>
              calls[t].commit = 1

\* C16 amended: per table the committed rows are all or none; once the
\* cursor is obtained, executemany is called once, commit is called exactly
\* when executemany returned, rollback exactly when executemany or commit
\* raised, and cursor.close() exactly once on every path; the call returns
\* normally exactly when neither rollback nor close raised, and then no row
\* of the table is left uncommitted; otherwise the exception leaves
\* insert_dataframe and main stops.  A call that returned, failed insert or
\* not, is followed by the next table in the fixed order, and a table is
\* attempted only after all earlier calls returned.
C16_InsertOutcome ==
    /\ \A t \in Tables :
          /\ committed[t] \in {"none", "all"}
          /\ committed[t] = "all" <=>
                (calls[t].commit = 1 /\ "commit" \notin failed[t])
          /\ \A c \in DOMAIN calls[t] : calls[t][c] <= 1
          /\ (Finished(t) /\ "cursor" \notin failed[t]) =>
                /\ calls[t].executemany = 1
                /\ calls[t].close = 1
                /\ calls[t].commit = 1 <=> "executemany" \notin failed[t]
                /\ calls[t].rollback = 1 <=> InsertFailed(t)
                /\ result[t] = "returned" <=>
                       failed[t] \cap {"rollback", "close"} = {}
                /\ result[t] = "returned" => pending[t] = "none"
          /\ (Finished(t) /\ "cursor" \in failed[t]) =>
                /\ result[t] = "propagated"
                /\ calls[t] = [NoCalls EXCEPT !.cursor = 1]
          /\ calls[t].cursor = 1 =>
                \A s \in 1..(t - 1) : result[s] = "returned"
          /\ (result[t] = "returned" /\ t < Len(TABLES)) =>
                (table_idx > t /\ main_pc = "insert")
                    \/ main_pc \in {"aborted", "close_connection", "done"}
    /\ main_pc = "aborted" <=> \E t \in Tables : result[t] = "propagated"
    /\ main_pc \in {"close_connection", "done"} =>
          \A t \in Tables : result[t] = "returned"
    /\ TABLES = <<"patients", "hospitals", "departments", "admissions",
                  "patient_procedures", "patient_medications",
                  "lab_results", "billing">>

\* main ran to the end although the insert into patients failed at
\* executemany and the one into hospitals at commit; admissions, a child
\* table, is committed.
C16_Witness ==
    /\ main_pc = "done"
    /\ "executemany" \in failed[1]
    /\ "commit" \in failed[2]
    /\ committed[1] = "none"
    /\ committed[4] = "all"
    /\ \A t \in Tables : calls[t].close = 1

====
